---- MODULE Spec2Model ----
(***************************************************************************)
(* A model of scrape_ratings.py (twestura/ECL-Ratings): the identifier     *)
(* parser parse_id, the roster loader load_players, the rating aggregator  *)
(* get_ratings and the control flow of main.                               *)
(*                                                                         *)
(* Python strings that the program takes apart (urls, csv cells, uids,     *)
(* rating texts) are sequences of one-character strings; Python lists are  *)
(* sequences (1-based here, 0-based in the source); insertion-ordered      *)
(* dicts are sequences of [key, value] records with unique keys.           *)
(***************************************************************************)
EXTENDS Integers, Sequences, FiniteSets

VARIABLES
    voobly_url, parse_ret,                  \* parse_id: argument, outcome
    fname, load_ret,                        \* load_players: the file fname names, outcome
    uid_list, lid, pages, agg_ret,          \* get_ratings: arguments, fetcher answers, outcome
    pc,                                     \* main: position in the function
    players_file,                           \* main: state of players.csv
    ladders,                                \* main: parsed.ladders
    player_profiles,                        \* main: player_profiles
    ratings,                                \* main: ratings
    invalid_players,                        \* main: invalid_players
    player_index,                           \* main: position of the players loop
    ladder_index,                           \* main: position of the ladders loop
    printed,                                \* main: what was printed
    ratings_file,                           \* ratings.csv
    invalid_file,                           \* invalid.csv
    login,                                  \* outcome of the Voobly login
    requests,                               \* ratings urls requested by main so far
    calls                                   \* get_ratings calls made by main so far

parseVars == <<voobly_url, parse_ret>>
loadVars == <<fname, load_ret>>
aggVars == <<uid_list, lid, pages, agg_ret>>
mainVars == <<pc, players_file, ladders, player_profiles, ratings, invalid_players,
              player_index, ladder_index, printed, ratings_file, invalid_file,
              login, requests, calls>>
vars == <<parseVars, loadVars, aggVars, mainVars>>

\* Value of a variable that the specification at hand does not use.
Unused == "unused"
\* Outcome of a call that has not been made yet.
NotCalled == [kind |-> "not called"]

(***************************************************************************)
(* Bounds of the model.                                                    *)
(***************************************************************************)
\* Longest url of the parse_id specification, in '/'-delimited segments.
MaxSegs == 3
\* Most rows of a players file.
MaxRows == 2
\* Most reference strings in a row of a players file.
MaxRefs == 2
\* Longest uid_list of the get_ratings specification.
MaxUids == 2
\* Rating values run over 0, 1600 and 1600 + 1 .. 1600 + MaxDelta.
MaxDelta == 1
\* Most ladders requested on the command line.
MaxLadders == 2

(***************************************************************************)
(* Python built-ins the program relies on.                                 *)
(***************************************************************************)
Digits == <<"0", "1", "2", "3", "4", "5", "6", "7", "8", "9">>
IsDigit(c) == \E d \in 1..10 : Digits[d] = c
DigitVal(c) == (CHOOSE d \in 1..10 : Digits[d] = c) - 1

Max(a, b) == IF a >= b THEN a ELSE b

\* str(n) of an int n.
RECURSIVE Str(_)
Str(n) ==
    IF n < 0 THEN <<"-">> \o Str(-n)
    ELSE IF n < 10 THEN <<Digits[n + 1]>>
    ELSE Str(n \div 10) \o <<Digits[(n % 10) + 1]>>

\* s.strip() for the whitespace character of the model, the blank.
RECURSIVE LStrip(_)
LStrip(s) == IF s # <<>> /\ Head(s) = " " THEN LStrip(Tail(s)) ELSE s
RECURSIVE RStrip(_)
RStrip(s) ==
    IF s # <<>> /\ s[Len(s)] = " " THEN RStrip(SubSeq(s, 1, Len(s) - 1)) ELSE s
Strip(s) == RStrip(LStrip(s))

\* The part of an integer literal after its sign.
Unsigned(s) == IF s # <<>> /\ Head(s) \in {"+", "-"} THEN Tail(s) ELSE s

\* Digits, with single underscores allowed between two digits.
DigitGroups(s) ==
    /\ s # <<>>
    /\ \A i \in 1..Len(s) : IsDigit(s[i]) \/ s[i] = "_"
    /\ \A i \in 1..Len(s) :
          s[i] = "_" => /\ i > 1 /\ i < Len(s)
                        /\ IsDigit(s[i - 1]) /\ IsDigit(s[i + 1])

\* Whether int(s) returns (TRUE) or raises ValueError (FALSE), base 10.
IntAccepts(s) == DigitGroups(Unsigned(Strip(s)))

RECURSIVE DigitsValue(_, _)
DigitsValue(s, acc) ==
    IF s = <<>> THEN acc
    ELSE IF Head(s) = "_" THEN DigitsValue(Tail(s), acc)
    ELSE DigitsValue(Tail(s), 10 * acc + DigitVal(Head(s)))

\* int(s), for an s that int accepts.
int(s) ==
    LET t == Strip(s)
        v == DigitsValue(Unsigned(t), 0)
    IN IF Head(t) = "-" THEN -v ELSE v

\* s.split('/')
RECURSIVE SplitLoop(_, _, _)
SplitLoop(s, done, cur) ==
    IF s = <<>> THEN Append(done, cur)
    ELSE IF Head(s) = "/" THEN SplitLoop(Tail(s), Append(done, cur), <<>>)
    ELSE SplitLoop(Tail(s), done, Append(cur, Head(s)))
Split(s) == SplitLoop(s, <<>>, <<>>)

\* '/'.join(segs)
RECURSIVE Join(_)
Join(segs) ==
    IF segs = <<>> THEN <<>>
    ELSE IF Len(segs) = 1 THEN segs[1]
    ELSE segs[1] \o <<"/">> \o Join(Tail(segs))

\* 1 + list.index(x), or 0 where list.index raises ValueError.
ListIndex(list, x) ==
    IF \E i \in 1..Len(list) : list[i] = x
    THEN CHOOSE i \in 1..Len(list) :
            list[i] = x /\ \A j \in 1..(i - 1) : list[j] # x
    ELSE 0

(***************************************************************************)
(* parse_id                                                                *)
(***************************************************************************)
VIEW == <<"v", "i", "e", "w">>

\* raise ValueError("The url '{}' is incorrectly formatted.".format(voobly_url))
UrlError(url) == [kind |-> "ValueError", val |-> [msg |-> "incorrectly formatted", url |-> url]]

parse_id(url) ==
    LET split_url == Split(url)
        view_index == ListIndex(split_url, VIEW)
    IN  IF view_index = 0 THEN UrlError(url)                     \* .index: ValueError
        ELSE IF view_index + 1 > Len(split_url) THEN UrlError(url) \* IndexError
        ELSE LET uid == split_url[view_index + 1]
             IN  IF IntAccepts(uid) THEN [kind |-> "return", val |-> uid]
                 ELSE UrlError(url)                              \* int: ValueError

\* Segments the urls of the parse_id specification are made of.
SegmentPool ==
    { <<>>, VIEW, <<"w">>, <<"7">>, <<"4", "2">>, <<"-", "5">>, <<"+", "5">>,
      <<" ", "5">>, <<"1", "_", "0">>, <<"_", "1">>, <<"7", "a">> }

SeqsUpTo(S, n) == UNION { [1..k -> S] : k \in 0..n }

Urls == { Join(segs) : segs \in SeqsUpTo(SegmentPool, MaxSegs) \ {<<>>} }

\* The variables of the other specifications, which a specification leaves alone.
ParseUnused == voobly_url = Unused /\ parse_ret = Unused
LoadUnused == fname = Unused /\ load_ret = Unused
AggUnused == uid_list = Unused /\ lid = Unused /\ pages = Unused /\ agg_ret = Unused
MainUnused ==
    /\ pc = Unused /\ players_file = Unused /\ ladders = Unused
    /\ player_profiles = Unused /\ ratings = Unused /\ invalid_players = Unused
    /\ player_index = Unused /\ ladder_index = Unused /\ printed = Unused
    /\ ratings_file = Unused /\ invalid_file = Unused /\ login = Unused
    /\ requests = Unused /\ calls = Unused

ParseInit ==
    /\ voobly_url \in Urls
    /\ parse_ret = NotCalled
    /\ LoadUnused /\ AggUnused /\ MainUnused

ParseId ==
    /\ parse_ret = NotCalled
    /\ parse_ret' = parse_id(voobly_url)
    /\ UNCHANGED <<voobly_url, loadVars, aggVars, mainVars>>

ParseNext == ParseId
ParseSpec == ParseInit /\ [][ParseNext]_vars

(***************************************************************************)
(* Insertion-ordered dicts.                                                *)
(***************************************************************************)
DictHas(d, k) == \E i \in 1..Len(d) : d[i].key = k
DictGet(d, k) == d[CHOOSE i \in 1..Len(d) : d[i].key = k].value
DictKeys(d) == [i \in 1..Len(d) |-> d[i].key]
\* d[k] = v: a present key keeps its place, a new key goes last.
DictSet(d, k, v) ==
    IF DictHas(d, k)
    THEN [i \in 1..Len(d) |-> IF d[i].key = k THEN [key |-> k, value |-> v] ELSE d[i]]
    ELSE Append(d, [key |-> k, value |-> v])
\* del d[k]
RECURSIVE DictDel(_, _)
DictDel(d, k) ==
    IF d = <<>> THEN <<>>
    ELSE IF Head(d).key = k THEN Tail(d)
    ELSE <<Head(d)>> \o DictDel(Tail(d), k)

(***************************************************************************)
(* load_players                                                            *)
(*                                                                         *)
(* A players file is [state, rows]: whether open() finds and can read it,  *)
(* and the rows csv.reader yields for it (a blank line yields the empty    *)
(* row).                                                                   *)
(***************************************************************************)
HEADER == <<"p", "l", "a", "y", "e", "r", "-", "n", "a", "m", "e">>

\* [parse_id(uid) for uid in refs]: the list, or the first error raised.
RECURSIVE ParseRefs(_, _)
ParseRefs(refs, acc) ==
    IF refs = <<>> THEN [kind |-> "return", val |-> acc]
    ELSE LET r == parse_id(Head(refs))
         IN  IF r.kind = "return" THEN ParseRefs(Tail(refs), Append(acc, r.val))
             ELSE r

\* for row in rows: players[row[0]] = [parse_id(uid) for uid in row[1:]]
RECURSIVE LoadRows(_, _)
LoadRows(rs, players) ==
    IF rs = <<>> THEN [kind |-> "return", val |-> players]
    ELSE LET row == Head(rs)
             uids == ParseRefs(IF row = <<>> THEN <<>> ELSE Tail(row), <<>>)
         IN  IF uids.kind # "return" THEN uids
             ELSE IF row = <<>> THEN [kind |-> "IndexError", val |-> <<>>]  \* row[0]
             ELSE LoadRows(Tail(rs), DictSet(players, row[1], uids.val))

load_players(file) ==
    IF file.state = "missing" THEN [kind |-> "FileNotFoundError", val |-> <<>>]
    ELSE IF file.state = "unreadable" THEN [kind |-> "OSError", val |-> <<>>]
    ELSE IF file.rows = <<>> THEN [kind |-> "return", val |-> <<>>]
    ELSE IF file.rows[1] = <<>> THEN [kind |-> "IndexError", val |-> <<>>] \* rows[0][0]
    ELSE IF file.rows[1][1] = HEADER THEN LoadRows(Tail(file.rows), <<>>)
    ELSE LoadRows(file.rows, <<>>)

\* Inputs of the load_players specification.
Name(i) == <<"P">> \o Str(i)
ProfileUrl(uid) == Join(<<<<"w">>, VIEW, uid>>)
BadUrl == Join(<<<<"w">>, <<"7">>>>)
HeaderRow == <<HEADER, <<"l", "i", "n", "k">>>>
RefPool == { ProfileUrl(<<"7">>), ProfileUrl(<<"4", "2">>), BadUrl }
RowPool ==
    { <<>>, HeaderRow }
    \cup { <<name>> \o refs : name \in {Name(1), Name(2)}, refs \in SeqsUpTo(RefPool, MaxRefs) }
Files ==
    { [state |-> "missing", rows |-> <<>>], [state |-> "unreadable", rows |-> <<>>] }
    \cup { [state |-> "ok", rows |-> rs] : rs \in SeqsUpTo(RowPool, MaxRows) }

LoadInit ==
    /\ fname \in Files
    /\ load_ret = NotCalled
    /\ ParseUnused /\ AggUnused /\ MainUnused

LoadPlayers ==
    /\ load_ret = NotCalled
    /\ load_ret' = load_players(fname)
    /\ UNCHANGED <<fname, parseVars, aggVars, mainVars>>

LoadNext == LoadPlayers
LoadSpec == LoadInit /\ [][LoadNext]_vars

(***************************************************************************)
(* get_ratings                                                             *)
(*                                                                         *)
(* The session's answers are a sequence of pages, the i-th being what      *)
(* sess.get returns to the i-th request of the call.  A page is what the   *)
(* function reads of it: its title, and the texts that follow the          *)
(* 'Current Rating' and 'Highest Rating' cells.                            *)
(***************************************************************************)
LADDERS ==
    [name \in { "RM - Clans", "CS - Europe", "Beginners RM", "Beginners DM",
                "RM - 1v1", "RM - Team Games", "RM AoFE", "AoFE Overall",
                "AoFE RM - 1v1", "AoFE RM - TG", "VCOM Clan Wars",
                "AoFE Castle Blood", "AoFE CS", "VCOM Ladder", "DM TG", "DM 1v1" } |->
        CASE name = "RM - Clans" -> 14
          [] name = "CS - Europe" -> 100
          [] name = "Beginners RM" -> 101
          [] name = "Beginners DM" -> 102
          [] name = "RM - 1v1" -> 131
          [] name = "RM - Team Games" -> 132
          [] name = "RM AoFE" -> 143
          [] name = "AoFE Overall" -> 144
          [] name = "AoFE RM - 1v1" -> 145
          [] name = "AoFE RM - TG" -> 146
          [] name = "VCOM Clan Wars" -> 148
          [] name = "AoFE Castle Blood" -> 149
          [] name = "AoFE CS" -> 150
          [] name = "VCOM Ladder" -> 151
          [] name = "DM TG" -> 162
          [] name = "DM 1v1" -> 163]

\* The rating given to a player all of whose accounts have 0 games.
DefaultRating == 1600

\* RATINGS_BASE_URL.format(uid=uid, lid=lid)
RatingsUrl(uid, l) == [uid |-> uid, lid |-> l]

\* if soup.title.get_text() == 'Page Not Found'
PageNotFound(page) == page.title = "Page Not Found"

\* raise ValueError("{}".format(uid))
InvalidUidBug(uids, i) == uids[1]
InvalidUid(uids, i) == uids[i]

\* if current: max_current = max(max_current, int(current))
NextCurrentBug(max_current, current) ==
    IF current # <<>> THEN int(current) ELSE max_current
NextCurrent(max_current, current) ==
    IF current # <<>> THEN Max(max_current, int(current)) ELSE max_current

\* max_highest = max(max_highest, int(highest))
NextHighest(max_highest, highest) == Max(max_highest, int(highest))

\* if max_current == -1: max_current = 1600
FinalCurrentBug(max_current) == IF max_current <= 0 THEN DefaultRating ELSE max_current
FinalCurrent(max_current) == IF max_current = -1 THEN DefaultRating ELSE max_current

\* The loop of get_ratings from its i-th iteration on, and the return after it.
\* The outcome carries the ratings urls the call requested.
RECURSIVE GetRatingsLoop(_, _, _, _, _, _, _)
GetRatingsLoop(uids, l, answers, i, max_current, max_highest, asked) ==
    IF i > Len(uids)
    THEN [kind |-> "return",
          val |-> <<Str(FinalCurrent(max_current)), Str(max_highest)>>,
          asked |-> asked]
    ELSE LET page == answers[i]
             now == Append(asked, RatingsUrl(uids[i], l))
         IN  IF PageNotFound(page)
             THEN [kind |-> "ValueError", val |-> InvalidUid(uids, i), asked |-> now]
             ELSE GetRatingsLoop(uids, l, answers, i + 1,
                                 NextCurrent(max_current, page.current),
                                 NextHighest(max_highest, page.highest), now)

get_ratings(uids, l, answers) == GetRatingsLoop(uids, l, answers, 1, -1, -1, <<>>)

\* Inputs of the get_ratings specification.  Ratings are ladder ratings, which
\* are not negative: 0, the default 1600 and values above it.
RatingValues == {0, DefaultRating} \cup { DefaultRating + d : d \in 1..MaxDelta }
RatingTexts == { Str(r) : r \in RatingValues }
NotFoundPage == [title |-> "Page Not Found", current |-> <<>>, highest |-> <<>>]
RatingPages ==
    { [title |-> "Ratings", current |-> c, highest |-> h] :
        c \in RatingTexts \cup {<<>>}, h \in RatingTexts }
Pages == RatingPages \cup {NotFoundPage}
Uid(i) == Str(7 * i)
UidList(n) == [i \in 1..n |-> Uid(i)]

AggInit ==
    /\ \E n \in 0..MaxUids :
          /\ uid_list = UidList(n)
          /\ pages \in [1..n -> Pages]
    /\ lid \in { LADDERS["RM - 1v1"], LADDERS["RM - Team Games"] }
    /\ agg_ret = NotCalled
    /\ ParseUnused /\ LoadUnused /\ MainUnused

GetRatings ==
    /\ agg_ret = NotCalled
    /\ agg_ret' = get_ratings(uid_list, lid, pages)
    /\ UNCHANGED <<uid_list, lid, pages, parseVars, loadVars, mainVars>>

AggNext == GetRatings
AggSpec == AggInit /\ [][AggNext]_vars

(***************************************************************************)
(* write_ratings and the invalid file                                      *)
(***************************************************************************)
\* Content of a file the run has not written.
NotWritten == [written |-> FALSE, header |-> <<>>, lines |-> <<>>]

\* header = ['Player Name', 'Current ' + ladder, 'Highest ' + ladder, ...]
RECURSIVE RatingsHeader(_)
RatingsHeader(ls) ==
    IF ls = <<>> THEN <<>>
    ELSE <<<<"Current", Head(ls)>>, <<"Highest", Head(ls)>>>> \o RatingsHeader(Tail(ls))

\* What write_ratings writes: the header line, then one line per entry of
\* player_ratings, the player and then the ratings.
write_ratings(player_ratings, ls) ==
    [written |-> TRUE,
     header |-> <<<<"Player Name">>>> \o RatingsHeader(ls),
     lines |-> [i \in 1..Len(player_ratings) |->
                  <<player_ratings[i].key>> \o player_ratings[i].value]]

\* for player, uid in invalid_players.items(): write('{},{}\n'.format(player, uid))
InvalidLinesBug(invalid) == [i \in 1..Len(invalid) |-> <<invalid[i].key, invalid[i].key>>]
InvalidLines(invalid) == [i \in 1..Len(invalid) |-> <<invalid[i].key, invalid[i].value>>]

(***************************************************************************)
(* main                                                                    *)
(***************************************************************************)
Message(msg, arg) == [msg |-> msg, arg |-> arg]

\* if login_soup.title.get_text() == 'Login'
LoginFailedBug(title) == title = "Log in"
LoginFailed(title) == title = "Login"

\* except ValueError: del ratings[player]
RemoveInvalidBug(player_ratings, player) == player_ratings
RemoveInvalid(player_ratings, player) == DictDel(player_ratings, player)

\* The players loop after the except clause: on to the next player of n.
AfterInvalidBug(i, n) == n + 1
AfterInvalid(i, n) == i + 1

\* The ladders loop after a rating pair is appended: on to the next ladder.
NextLadderBug(i) == i + 2
NextLadder(i) == i + 1

\* except OSError: print(WRITE_ERROR_MSG); return
AfterWriteErrorBug(invalid) == IF invalid # <<>> THEN "write_invalid" ELSE "done"
AfterWriteError(invalid) == "done"

\* Where main is once the players loop is at index i of n players.
PlayersPc(i, n) == IF i > n THEN "write_ratings" ELSE "players"

\* Pages the session answers with in main.
ZeroGamesPage == [title |-> "Ratings", current |-> <<>>, highest |-> Str(0)]
PlayedPage ==
    [title |-> "Ratings", current |-> Str(DefaultRating + 1), highest |-> Str(DefaultRating + 1)]
MainPages == {NotFoundPage, ZeroGamesPage, PlayedPage}

\* Players files of main: MaxRows players at most, the first with up to MaxRefs
\* references and the others with one; as they are, after a header, followed by a
\* row with a bad reference, by a blank line, or by a second row for the first
\* player.
PlayerRow(i, k) == <<Name(i)>> \o [j \in 1..k |-> ProfileUrl(Str(10 * i + j))]
PlayerRows(n, k) == [i \in 1..n |-> PlayerRow(i, IF i = 1 THEN k ELSE 1)]
FileVariants(rs) ==
    { rs, <<HeaderRow>> \o rs, rs \o <<<<Name(0), BadUrl>>>>, rs \o <<<<>>>>,
      rs \o <<PlayerRow(1, 1)>> }
MainFiles ==
    { [state |-> "missing", rows |-> <<>>], [state |-> "unreadable", rows |-> <<>>] }
    \cup { [state |-> "ok", rows |-> rs] :
             rs \in UNION { FileVariants(PlayerRows(n, k)) :
                               n \in 0..MaxRows, k \in 0..MaxRefs } }

\* choices=sorted(LADDERS, key=LADDERS.get), the default selection first.
LadderOrder == <<"RM - 1v1", "RM - Team Games", "RM - Clans", "CS - Europe">>
LadderLists == { SubSeq(LadderOrder, 1, n) : n \in 0..MaxLadders }

Init ==
    /\ pc = "load"
    /\ players_file \in MainFiles
    /\ ladders \in LadderLists
    /\ player_profiles = <<>>
    /\ ratings = <<>>
    /\ invalid_players = <<>>
    /\ player_index = 0
    /\ ladder_index = 0
    /\ printed = <<>>
    /\ ratings_file = NotWritten
    /\ invalid_file = NotWritten
    /\ login = "none"
    /\ requests = <<>>
    /\ calls = <<>>
    /\ ParseUnused /\ LoadUnused /\ AggUnused

\* player_profiles = load_players(), and the three except clauses around it.
\* An IndexError of load_players is caught by none of them.
Load ==
    /\ pc = "load"
    /\ \E r \in {load_players(players_file)} :
           /\ player_profiles' = IF r.kind = "return" THEN r.val ELSE player_profiles
           /\ pc' = CASE r.kind = "return" -> "login"
                      [] r.kind = "IndexError" -> "crashed"
                      [] OTHER -> "done"
           /\ printed' =
                CASE r.kind = "FileNotFoundError" ->
                        Append(printed, Message("PLAYERS_FILE_NOT_FOUND", <<>>))
                  [] r.kind = "OSError" ->
                        Append(printed, Message("PLAYERS_FILE_ERROR_MSG", <<>>))
                  [] r.kind = "ValueError" ->
                        Append(printed, Message(r.val.msg, r.val.url))
                  [] OTHER -> printed
    /\ UNCHANGED <<players_file, ladders, ratings, invalid_players, player_index,
                   ladder_index, ratings_file, invalid_file, login, requests, calls,
                   parseVars, loadVars, aggVars>>

\* The login post, the check of its title, and ratings = {}.
Login ==
    /\ pc = "login"
    /\ \E title \in {"Login", "Voobly"} :
          /\ login' = title
          /\ IF LoginFailed(title)
             THEN /\ printed' = Append(printed, Message("VOOBLY_LOGIN_FAIL_MSG", <<>>))
                  /\ pc' = "done"
                  /\ UNCHANGED player_index
             ELSE /\ player_index' = 1
                  /\ pc' = PlayersPc(1, Len(player_profiles))
                  /\ UNCHANGED printed
    /\ UNCHANGED <<players_file, ladders, player_profiles, ratings, invalid_players,
                   ladder_index, ratings_file, invalid_file, requests, calls,
                   parseVars, loadVars, aggVars>>

\* for player, uid_list in player_profiles.items(): try: ratings[player] = []
BeginPlayer ==
    /\ pc = "players"
    /\ ratings' = DictSet(ratings, player_profiles[player_index].key, <<>>)
    /\ ladder_index' = 1
    /\ pc' = "ladders"
    /\ UNCHANGED <<players_file, ladders, player_profiles, invalid_players, player_index,
                   printed, ratings_file, invalid_file, login, requests, calls,
                   parseVars, loadVars, aggVars>>

\* One iteration of the ladders loop: the get_ratings call, then either the two
\* appends or the except clause.
Aggregate ==
    /\ pc = "ladders"
    /\ ladder_index <= Len(ladders)
    /\ LET player == player_profiles[player_index].key
           uids == player_profiles[player_index].value
           ladder == ladders[ladder_index]
       IN  \E answers \in [1..Len(uids) -> MainPages] :
              LET r == get_ratings(uids, LADDERS[ladder], answers)
              IN  /\ requests' = requests \o r.asked
                  /\ calls' = Append(calls, [player |-> player, ladder |-> ladder,
                                             kind |-> r.kind, asked |-> r.asked])
                  /\ IF r.kind = "return"
                     THEN /\ ratings' = DictSet(ratings, player,
                                                DictGet(ratings, player) \o r.val)
                          /\ ladder_index' = NextLadder(ladder_index)
                          /\ UNCHANGED <<invalid_players, player_index, pc>>
                     ELSE /\ ratings' = RemoveInvalid(ratings, player)
                          /\ invalid_players' = DictSet(invalid_players, player, r.val)
                          /\ player_index' = AfterInvalid(player_index, Len(player_profiles))
                          /\ pc' = PlayersPc(player_index', Len(player_profiles))
                          /\ UNCHANGED ladder_index
    /\ UNCHANGED <<players_file, ladders, player_profiles, printed, ratings_file,
                   invalid_file, login, parseVars, loadVars, aggVars>>

\* The ladders loop is exhausted: on to the next player.
EndPlayer ==
    /\ pc = "ladders"
    /\ ladder_index > Len(ladders)
    /\ player_index' = player_index + 1
    /\ pc' = PlayersPc(player_index', Len(player_profiles))
    /\ UNCHANGED <<players_file, ladders, player_profiles, ratings, invalid_players,
                   ladder_index, printed, ratings_file, invalid_file, login, requests,
                   calls, parseVars, loadVars, aggVars>>

\* try: write_ratings(ratings, parsed.ladders) except OSError: print; return
WriteRatings ==
    /\ pc = "write_ratings"
    /\ \/ /\ ratings_file' = write_ratings(ratings, ladders)
          /\ pc' = IF invalid_players # <<>> THEN "write_invalid" ELSE "done"
          /\ UNCHANGED printed
       \/ /\ printed' = Append(printed, Message("WRITE_ERROR_MSG", <<>>))
          /\ pc' = AfterWriteError(invalid_players)
          /\ UNCHANGED ratings_file
    /\ UNCHANGED <<players_file, ladders, player_profiles, ratings, invalid_players,
                   player_index, ladder_index, invalid_file, login, requests, calls,
                   parseVars, loadVars, aggVars>>

\* if invalid_players: print the count, write invalid.csv; except OSError: print
WriteInvalid ==
    /\ pc = "write_invalid"
    /\ LET count == Message("INVALID_UID_MSG", Len(invalid_players))
       IN  \/ /\ invalid_file' = [written |-> TRUE, header |-> <<>>,
                                  lines |-> InvalidLines(invalid_players)]
              /\ printed' = Append(printed, count)
           \/ /\ printed' = printed \o <<count, Message("WRITE_ERROR_INVALID", <<>>)>>
              /\ UNCHANGED invalid_file
    /\ pc' = "done"
    /\ UNCHANGED <<players_file, ladders, player_profiles, ratings, invalid_players,
                   player_index, ladder_index, ratings_file, login, requests, calls,
                   parseVars, loadVars, aggVars>>

Next ==
    \/ Load
    \/ Login
    \/ BeginPlayer
    \/ Aggregate
    \/ EndPlayer
    \/ WriteRatings
    \/ WriteInvalid

Spec == Init /\ [][Next]_vars

\* Once the players file is loaded main runs on to its end: no step of it waits
\* for anything but its own calls.
Running == Login \/ BeginPlayer \/ Aggregate \/ EndPlayer \/ WriteRatings \/ WriteInvalid
LiveSpec == Spec /\ WF_vars(Running)

(***************************************************************************)
(* Properties of get_ratings (AggSpec).                                    *)
(***************************************************************************)
MaxOf(S) == CHOOSE m \in S : \A x \in S : x <= m
MinOf(S) == CHOOSE m \in S : \A x \in S : m <= x

\* Positions of uid_list whose account the fetcher reports as nonexistent, and
\* those whose account has a current rating.
Missing == { i \in 1..Len(uid_list) : PageNotFound(pages[i]) }
Present == { i \in 1..Len(uid_list) : ~PageNotFound(pages[i]) /\ pages[i].current # <<>> }
Returned == agg_ret.kind # "not called"

\* C1: if any account of a non-empty uid_list does not exist, get_ratings raises
\* ValueError whose message is the first such account's uid, having requested the
\* accounts up to that one and none after it.
C1_InvalidAccountFails ==
    (Returned /\ uid_list # <<>> /\ Missing # {}) =>
        /\ agg_ret.kind = "ValueError"
        /\ agg_ret.val = uid_list[MinOf(Missing)]
        /\ agg_ret.asked = [j \in 1..MinOf(Missing) |-> RatingsUrl(uid_list[j], lid)]

\* C1 witness: the second of two accounts does not exist, the first has a rating.
C1_Witness ==
    /\ Returned /\ Len(uid_list) = 2
    /\ 1 \in Present /\ 2 \in Missing
    /\ agg_ret.kind = "ValueError"

\* C2: for existing accounts at least one of which has a current rating,
\* get_ratings returns the maximum of the present current ratings and the maximum
\* of all highest ratings; for one account, that account's own pair.
C2_ElementwiseMaximum ==
    (Returned /\ uid_list # <<>> /\ Missing = {} /\ Present # {}) =>
        /\ agg_ret.kind = "return"
        /\ agg_ret.val =
              << Str(MaxOf({ int(pages[i].current) : i \in Present })),
                 Str(MaxOf({ int(pages[i].highest) : i \in 1..Len(uid_list) })) >>
        /\ Len(uid_list) = 1 => agg_ret.val = <<pages[1].current, pages[1].highest>>

\* C2 witness: two accounts with games, the first with the larger current rating
\* and the second with the larger highest rating.
C2_Witness ==
    /\ Returned /\ Len(uid_list) = 2 /\ Present = {1, 2}
    /\ int(pages[1].current) > int(pages[2].current)
    /\ int(pages[1].highest) < int(pages[2].highest)
    /\ agg_ret.kind = "return"

\* C3: for existing accounts none of which has a current rating, get_ratings
\* returns 1600 and the maximum of the highest ratings; when some account has a
\* current rating, the returned current rating is 1600 only if that is the maximum
\* of the present ones.
C3_DefaultOnlyWithoutGames ==
    (Returned /\ uid_list # <<>> /\ Missing = {}) =>
        /\ Present = {} =>
              /\ agg_ret.kind = "return"
              /\ agg_ret.val[1] = Str(DefaultRating)
              /\ agg_ret.val[2] = Str(MaxOf({ int(pages[i].highest) : i \in 1..Len(uid_list) }))
        /\ (Present # {} /\ MaxOf({ int(pages[i].current) : i \in Present }) # DefaultRating) =>
              /\ agg_ret.kind = "return"
              /\ agg_ret.val[1] # Str(DefaultRating)

\* C3 witness: two accounts without games whose highest ratings differ, the larger
\* one not being 1600.
C3_Witness ==
    /\ Returned /\ Len(uid_list) = 2 /\ Missing = {} /\ Present = {}
    /\ int(pages[1].highest) < int(pages[2].highest)
    /\ int(pages[2].highest) # DefaultRating
    /\ agg_ret.kind = "return"

(***************************************************************************)
(* Properties of parse_id (ParseSpec).                                     *)
(***************************************************************************)
\* A non-negative integer in decimal: one or more digits.
IsDecimal(seg) == seg # <<>> /\ \A i \in 1..Len(seg) : IsDigit(seg[i])

\* C8: parse_id returns the segment that follows the (first) segment 'view' when
\* that segment exists and is a non-negative decimal integer, and raises
\* ValueError carrying the url in every other case.
C8_ParseIdContract ==
    parse_ret.kind # "not called" =>
        LET segs == Split(voobly_url)
            v == ListIndex(segs, VIEW)
        IN  IF v # 0 /\ v < Len(segs) /\ IsDecimal(segs[v + 1])
            THEN parse_ret = [kind |-> "return", val |-> segs[v + 1]]
            ELSE parse_ret = UrlError(voobly_url)

(***************************************************************************)
(* Properties of load_players (LoadSpec).                                  *)
(***************************************************************************)
\* The rows of the file after its optional header.
DataRows ==
    IF fname.rows # <<>> /\ fname.rows[1] # <<>> /\ fname.rows[1][1] = HEADER
    THEN Tail(fname.rows)
    ELSE fname.rows

RefsOf(row) == IF row = <<>> THEN <<>> ELSE Tail(row)
BadRefs == { ref \in UNION { { RefsOf(DataRows[i])[j] : j \in 1..Len(RefsOf(DataRows[i])) } :
                                i \in 1..Len(DataRows) } :
                parse_id(ref).kind # "return" }

\* C9: load_players either returns a roster in which every player maps to the
\* non-empty list of the parse_id results of the references of that player's row,
\* in row order (the empty roster for no rows or a header alone), or, if a
\* reference fails the parser, raises that error.
C9_LoadAllOrNothing ==
    (load_ret.kind # "not called" /\ fname.state = "ok") =>
        IF BadRefs # {}
        THEN \E ref \in BadRefs : load_ret = parse_id(ref)
        ELSE /\ load_ret.kind = "return"
             /\ \A i \in 1..Len(DataRows) :
                   DataRows[i] # <<>> /\ DictHas(load_ret.val, DataRows[i][1])
             /\ \A e \in 1..Len(load_ret.val) :
                   /\ load_ret.val[e].value # <<>>
                   /\ \E i \in 1..Len(DataRows) :
                         /\ DataRows[i] # <<>>
                         /\ DataRows[i][1] = load_ret.val[e].key
                         /\ load_ret.val[e].value =
                               [j \in 1..(Len(DataRows[i]) - 1) |->
                                   parse_id(DataRows[i][j + 1]).val]

(***************************************************************************)
(* Properties of main (Spec, LiveSpec).                                    *)
(***************************************************************************)
Keys(d) == { d[i].key : i \in 1..Len(d) }

\* The players loop has run to its end.
FetchingCompleted == login = "Voobly" /\ pc \in {"write_ratings", "write_invalid", "done"}

CallsOf(p) == { i \in 1..Len(calls) : calls[i].player = p }
FailedCalls == { i \in 1..Len(calls) : calls[i].kind = "ValueError" }

\* Aggregation succeeded for player p on every requested ladder.
SucceededOnAll(p) ==
    /\ \A i \in CallsOf(p) : calls[i].kind = "return"
    /\ \A l \in 1..Len(ladders) : \E i \in CallsOf(p) : calls[i].ladder = ladders[l]

\* The number of get_ratings calls made for player p on the l-th ladder.
CallCount(p, l) == Cardinality({ i \in CallsOf(p) : calls[i].ladder = ladders[l] })

\* Sum over the roster of accounts x requested ladders.
RECURSIVE Accounts(_)
Accounts(roster) ==
    IF roster = <<>> THEN 0 ELSE Len(Head(roster).value) + Accounts(Tail(roster))
TotalFetches == Accounts(player_profiles) * Len(ladders)

RECURSIVE Asked(_)
Asked(cs) == IF cs = <<>> THEN 0 ELSE Len(Head(cs).asked) + Asked(Tail(cs))

Printed(msg) == \E i \in 1..Len(printed) : printed[i].msg = msg

\* C4: no player is a key of both ratings and invalid_players; once fetching has
\* completed every roster player is a key of exactly one of them, of ratings
\* exactly when aggregation succeeded on all requested ladders, and the ratings
\* table and the written report list those players in roster order.
C4_RatingsXorInvalid ==
    /\ Keys(ratings) \cap Keys(invalid_players) = {}
    /\ FetchingCompleted =>
          /\ \A p \in Keys(player_profiles) :
                /\ (p \in Keys(ratings)) # (p \in Keys(invalid_players))
                /\ (p \in Keys(ratings)) <=> SucceededOnAll(p)
          /\ DictKeys(ratings) = SelectSeq(DictKeys(player_profiles), SucceededOnAll)
          /\ \A i \in 1..Len(ratings) : Len(ratings[i].value) = 2 * Len(ladders)
          /\ ratings_file.written =>
                [i \in 1..Len(ratings_file.lines) |-> ratings_file.lines[i][1]]
                    = SelectSeq(DictKeys(player_profiles), SucceededOnAll)

\* C4 witness: the report is written for a run in which one player succeeded and
\* another failed on a later ladder after succeeding on an earlier one.
C4_Witness ==
    /\ pc = "done" /\ ratings_file.written
    /\ ratings # <<>>
    /\ \E i \in FailedCalls : \E j \in CallsOf(calls[i].player) : calls[j].kind = "return"

\* Player q was aggregated on every requested ladder up to its own failure.
Aggregated(q) ==
    \A l \in 1..Len(ladders) :
        \/ CallCount(q, l) = 1
        \/ \E i \in CallsOf(q) \cap FailedCalls : \E k \in 1..(l - 1) : calls[i].ladder = ladders[k]

C5_Safe ==
    /\ \A i \in FailedCalls :
          /\ DictHas(invalid_players, calls[i].player)
          /\ DictGet(invalid_players, calls[i].player) = calls[i].asked[Len(calls[i].asked)].uid
          /\ pc # "crashed"
    /\ FetchingCompleted => \A q \in Keys(player_profiles) : Aggregated(q)
C5_Failed == FailedCalls # {}
C5_ReachedWriting == pc \in {"write_ratings", "write_invalid", "done"}

NothingFetchedOrWritten ==
    /\ requests = <<>> /\ calls = <<>>
    /\ ~ratings_file.written /\ ~invalid_file.written

\* C6: when load_players raises FileNotFoundError, OSError or ValueError, or the
\* login is rejected, main ends having printed a message, without a rating
\* request and without writing a report; no rating is requested before the
\* roster is loaded and the login accepted.
C6_FatalBeforeFetching ==
    /\ (pc # "load" /\ load_players(players_file).kind
            \in {"FileNotFoundError", "OSError", "ValueError"}) =>
          /\ pc = "done" /\ Len(printed) = 1 /\ login = "none"
          /\ NothingFetchedOrWritten
    /\ login = "Login" =>
          /\ pc = "done" /\ Len(printed) = 1 /\ Printed("VOOBLY_LOGIN_FAIL_MSG")
          /\ NothingFetchedOrWritten
    /\ (requests # <<>> \/ calls # <<>>) =>
          /\ load_players(players_file).kind = "return"
          /\ login = "Voobly"

\* C6 witness: a roster with a player was loaded and the login was rejected.
C6_Witness == pc = "done" /\ login = "Login" /\ player_profiles # <<>>

\* C7, as claimed: whenever fetching completes with a failed player, invalid.csv
\* is written with one row per failed player, also when writing ratings.csv
\* fails (a failure to write invalid.csv itself set aside).
C7_InvalidReportIndependent ==
    (pc = "done" /\ FetchingCompleted /\ invalid_players # <<>>
        /\ ~Printed("WRITE_ERROR_INVALID")) =>
        /\ invalid_file.written
        /\ invalid_file.lines = InvalidLines(invalid_players)

\* C7, amended: when fetching completes with a failed player, invalid.csv is
\* written, one (player, failure detail) row per failed player, exactly when
\* writing ratings.csv succeeded and invalid.csv could be written; when writing
\* ratings.csv fails, main prints the error and ends without writing invalid.csv.
C7_InvalidReportAfterRatings ==
    (pc = "done" /\ FetchingCompleted /\ invalid_players # <<>>) =>
        /\ invalid_file.written <=> (ratings_file.written /\ ~Printed("WRITE_ERROR_INVALID"))
        /\ ~ratings_file.written => (Printed("WRITE_ERROR_MSG") /\ ~Printed("INVALID_UID_MSG"))
        /\ invalid_file.written =>
              /\ Len(invalid_file.lines) = Cardinality({ calls[i].player : i \in FailedCalls })
              /\ \A i \in FailedCalls :
                    \E k \in 1..Len(invalid_file.lines) :
                        invalid_file.lines[k] =
                            <<calls[i].player, calls[i].asked[Len(calls[i].asked)].uid>>

\* C7 witness: both reports were written in a run with a failed player.
C7_Witness ==
    /\ pc = "done" /\ ratings_file.written /\ invalid_file.written
    /\ invalid_file.lines # <<>>

\* C10, as claimed: when fetching completes, get_ratings has run once per
\* (player, ladder) pair and the requests number the sum over the roster of
\* accounts x ladders.
C10_FetchCountExact ==
    FetchingCompleted =>
        /\ \A p \in Keys(player_profiles) : \A l \in 1..Len(ladders) : CallCount(p, l) = 1
        /\ Len(requests) = TotalFetches

\* C10, amended: get_ratings runs at most once per (player, ladder) pair, and once
\* per pair for a player that does not fail; a call requests one page per account
\* if it returns and stops at the first nonexistent account if it raises; when
\* fetching completes the requests number at most the sum over the roster of
\* accounts x ladders, and exactly that sum when no player failed.
C10_FetchCountBounded ==
    /\ \A i \in 1..Len(calls) : \A j \in 1..Len(calls) :
          (calls[i].player = calls[j].player /\ calls[i].ladder = calls[j].ladder) => i = j
    /\ Len(requests) = Asked(calls)
    /\ \A i \in 1..Len(calls) :
          LET n == Len(DictGet(player_profiles, calls[i].player))
          IN  IF calls[i].kind = "return" THEN Len(calls[i].asked) = n
              ELSE Len(calls[i].asked) \in 1..n
    /\ FetchingCompleted =>
          /\ Len(requests) <= TotalFetches
          /\ \A p \in Keys(player_profiles) \ Keys(invalid_players) :
                \A l \in 1..Len(ladders) : CallCount(p, l) = 1
          /\ invalid_players = <<>> => Len(requests) = TotalFetches

\* C10 witness: fetching completed with one player aggregated on two ladders and
\* another failed, on fewer requests than accounts x ladders.
C10_Witness ==
    /\ FetchingCompleted /\ Len(ladders) = 2
    /\ ratings # <<>> /\ invalid_players # <<>>
    /\ Len(requests) < TotalFetches

====
